---- MODULE Spec2Model ----
(***************************************************************************)
(* Model of serve.py: a launcher that changes into the directory `public`, *)
(* binds a socketserver.TCPServer with http.server.SimpleHTTPRequestHandler*)
(* on port 8000, prints two status lines, opens the browser and serves     *)
(* until a KeyboardInterrupt.                                              *)
(*                                                                         *)
(* Several instances of the script (Procs) run against one host: one file  *)
(* system, one TCP port.  A signal is delivered between two statements of  *)
(* the script, or while serve_forever() is blocked or handling a request.  *)
(***************************************************************************)
EXTENDS Integers, Sequences, FiniteSets, TLC

\* ---------------------------------------------------------------- bounds
NumProcs == 2       \* instances of the script launched on the host
MaxRequests == 2    \* client connections made during a run
MaxBacklog == 1     \* connections waiting in the listen queue at once

\* ------------------------------------------------------------- constants
PORT == 8000

Procs == 1..NumProcs

\* The lines print() writes, with the f-strings' {PORT} expanded.
LineUrl == "Serving at http://localhost:8000"
LineStop == "Press Ctrl+C to stop the server"
LineStopped == "\nServer stopped."

\* ------------------------------------------------------- the file system
\* A directory tree: the set of its directories and its regular files with
\* their bytes, both named by their path below `public` (a sequence of names).
TreeSite ==
    [state |-> "ok",
     dirs  |-> {<<>>, <<"docs">>, <<"img">>},
     files |-> (<<"index.html">> :> "home-bytes")
            @@ (<<"docs", "index.html">> :> "docs-bytes")
            @@ (<<"img", "logo.png">> :> "png-bytes")]

TreeNoRootIndex ==
    [state |-> "ok",
     dirs  |-> {<<>>, <<"docs">>},
     files |-> (<<"docs", "index.htm">> :> "htm-bytes")
            @@ (<<"img">> :> "img-bytes")]

NoTree(st) == [state |-> st, dirs |-> {}, files |-> <<>>]

\* What `public` can be when the script is launched.
PublicChoices ==
    {TreeSite, TreeNoRootIndex, NoTree("missing"), NoTree("noaccess")}

Names == {"index.html", "index.htm", "docs", "img", "logo.png", "missing.html"}

\* ---------------------------------------------------------- request URLs
URL(segs, slash) == [segs |-> segs, slash |-> slash]
NoURL == URL(<<"">>, FALSE)

\* The request paths clients send: segs are the components between the
\* slashes, slash says whether the path ends with "/".
RequestURLs ==
    { URL(<<"index.html">>, FALSE),                 \* /index.html
      URL(<<"missing.html">>, FALSE),               \* /missing.html
      URL(<<"docs">>, FALSE),                       \* /docs
      URL(<<"docs">>, TRUE),                        \* /docs/
      URL(<<"img">>, TRUE),                         \* /img/
      URL(<<"docs", "..", "index.html">>, FALSE),   \* /docs/../index.html
      URL(<<"index.html">>, TRUE) }                 \* /index.html/

VARIABLES
    public,      \* the directory `public` of the host: its state and tree
    pc,          \* pc[p]: the statement instance p is at
    cwd,         \* cwd[p]: "launch" or "public"
    sock,        \* sock[p]: "none", "listening" or "closed"
    stdout,      \* stdout[p]: the lines p has printed
    browser,     \* browser[p]: "not_tried", "opened" or "failed"
    err,         \* err[p]: the exception that ended p, or "none"
    exitStatus,  \* exitStatus[p]: "running", "ok" or "error"
    intAt,       \* intAt[p]: where p was when its first SIGINT came, or "none"
    backlog,     \* connections queued on PORT, oldest first
    nextId,      \* the next connection's number
    active,      \* active[p]: the connections whose request p is processing
    lastResp,    \* the last response a handler produced
    lingering    \* PORT still has closed connections in TIME_WAIT

vars == <<public, pc, cwd, sock, stdout, browser, err, exitStatus, intAt,
          backlog, nextId, active, lastResp, lingering>>

NoResp ==
    [url |-> NoURL, status |-> 0, kind |-> "none", body |-> "",
     entries |-> {}, location |-> NoURL]

Init ==
    /\ public \in PublicChoices
    /\ pc = [p \in Procs |-> "chdir"]
    /\ cwd = [p \in Procs |-> "launch"]
    /\ sock = [p \in Procs |-> "none"]
    /\ stdout = [p \in Procs |-> <<>>]
    /\ browser = [p \in Procs |-> "not_tried"]
    /\ err = [p \in Procs |-> "none"]
    /\ exitStatus = [p \in Procs |-> "running"]
    /\ intAt = [p \in Procs |-> "none"]
    /\ backlog = <<>>
    /\ nextId = 1
    /\ active = [p \in Procs |-> {}]
    /\ lastResp = NoResp
    /\ lingering = FALSE

\* ------------------------------------------- SimpleHTTPRequestHandler
isdir(t, path) == path \in t.dirs
isfile(t, path) == path \in DOMAIN t.files

\* posixpath.normpath on the components of an absolute path: empty and "."
\* components are dropped, ".." removes the component before it (and is
\* dropped at the root).
RECURSIVE normpath(_, _, _)
normpath(segs, i, acc) ==
    IF i > Len(segs) THEN acc
    ELSE IF segs[i] \in {"", "."} THEN normpath(segs, i + 1, acc)
    ELSE IF segs[i] = ".."
         THEN normpath(segs, i + 1,
                       IF acc = <<>> THEN <<>> ELSE SubSeq(acc, 1, Len(acc) - 1))
    ELSE normpath(segs, i + 1, Append(acc, segs[i]))

\* translate_path: the file-system path below the handler's directory (the
\* working directory, `public`) a request path names, and whether the request
\* path ended with a slash.
translate_path(url) ==
    [path  |-> SelectSeq(normpath(url.segs, 1, <<>>),
                         LAMBDA w : w \notin {".", ".."}),
     slash |-> url.slash]

Response(st, kind, body, entries, location) ==
    [status |-> st, kind |-> kind, body |-> body, entries |-> entries,
     location |-> location]

NotFound == Response(404, "error", "", {}, NoURL)

FileResponse(t, path) == Response(200, "file", t.files[path], {}, NoURL)

\* list_directory: 200 with a listing of the directory's entries.
list_directory(t, path) ==
    Response(200, "listing", "",
             {n \in Names : isdir(t, Append(path, n)) \/ isfile(t, Append(path, n))},
             NoURL)

\* A mutant of send_head: a directory requested without its trailing slash is
\* answered with its index file at once, with no redirect.
send_head_no_redirect(t, url) ==
    LET tp == translate_path(url) IN
    IF isdir(t, tp.path)
    THEN IF isfile(t, Append(tp.path, "index.html"))
         THEN FileResponse(t, Append(tp.path, "index.html"))
         ELSE IF isfile(t, Append(tp.path, "index.htm"))
         THEN FileResponse(t, Append(tp.path, "index.htm"))
         ELSE list_directory(t, tp.path)
    ELSE IF tp.slash THEN NotFound
    ELSE IF isfile(t, tp.path) THEN FileResponse(t, tp.path)
    ELSE NotFound

\* A mutant of send_head: a path that cannot be opened is answered 200 with
\* an empty body.
send_head_no_404(t, url) ==
    LET tp == translate_path(url) IN
    IF isdir(t, tp.path)
    THEN IF ~url.slash
         THEN Response(301, "redirect", "", {}, URL(url.segs, TRUE))
         ELSE IF isfile(t, Append(tp.path, "index.html"))
         THEN FileResponse(t, Append(tp.path, "index.html"))
         ELSE IF isfile(t, Append(tp.path, "index.htm"))
         THEN FileResponse(t, Append(tp.path, "index.htm"))
         ELSE list_directory(t, tp.path)
    ELSE IF isfile(t, tp.path) THEN FileResponse(t, tp.path)
    ELSE Response(200, "file", "", {}, NoURL)

\* send_head followed by the copy of the file: the response to a GET.
send_head(t, url) ==
    LET tp == translate_path(url) IN
    IF isdir(t, tp.path)
    THEN IF ~url.slash
         THEN Response(301, "redirect", "", {}, URL(url.segs, TRUE))
         ELSE IF isfile(t, Append(tp.path, "index.html"))
         THEN FileResponse(t, Append(tp.path, "index.html"))
         ELSE IF isfile(t, Append(tp.path, "index.htm"))
         THEN FileResponse(t, Append(tp.path, "index.htm"))
         ELSE list_directory(t, tp.path)
    ELSE IF tp.slash THEN NotFound
    ELSE IF isfile(t, tp.path) THEN FileResponse(t, tp.path)
    ELSE NotFound

\* ------------------------------------------------------ process helpers
Listeners == {p \in Procs : sock[p] = "listening"}

\* A mutant of PortFree: the bind succeeds whoever else holds the port
\* (as with SO_REUSEPORT).
PortFreeShared == TRUE

\* bind() without SO_REUSEADDR (TCPServer.allow_reuse_address is False):
\* the port must have no listener and no connection in TIME_WAIT.
PortFree == Listeners = {} /\ ~lingering

\* A mutant of chdir_error: the failure of the chdir is swallowed.
chdir_unchecked(d) == "none"

\* os.chdir('public'): the exception it raises, or "none".
chdir_error(d) ==
    IF d.state = "ok" THEN "none"
    ELSE IF d.state = "missing" THEN "FileNotFoundError"
    ELSE "PermissionError"

\* A mutant of server_close: the server is used without the with block and
\* nothing closes its socket.
server_close_leak(s) == s

\* TCPServer.__exit__: server_close() closes the listening socket.
server_close(s) == IF s = "listening" THEN "closed" ELSE s

\* An exception e that nothing catches leaves statement by statement: the
\* with block (when entered) closes the socket on the way out, the
\* interpreter prints the traceback and the process ends with an error.
Raise(p, e) ==
    /\ pc' = [pc EXCEPT ![p] = "done"]
    /\ err' = [err EXCEPT ![p] = e]
    /\ exitStatus' = [exitStatus EXCEPT ![p] = "error"]
    /\ sock' = [sock EXCEPT ![p] = server_close(sock[p])]
    /\ backlog' = IF sock[p] = "listening" THEN <<>> ELSE backlog
    /\ active' = [active EXCEPT ![p] = {}]
    /\ lingering' = (lingering \/ active[p] # {})

\* ------------------------------------------------------------- startup
\* line 8: os.chdir('public')
Chdir(p) ==
    /\ pc[p] = "chdir"
    /\ IF chdir_error(public) = "none"
       THEN /\ cwd' = [cwd EXCEPT ![p] = "public"]
            /\ pc' = [pc EXCEPT ![p] = "bind"]
            /\ UNCHANGED <<err, exitStatus, sock, backlog, active, lingering>>
       ELSE /\ Raise(p, chdir_error(public))
            /\ UNCHANGED cwd
    /\ UNCHANGED <<public, stdout, browser, intAt, nextId, lastResp>>

\* line 14: socketserver.TCPServer(("", PORT), Handler) creates the socket,
\* binds it and listens; when the bind fails the constructor discards the
\* unbound socket and the OSError leaves the script.
Bind(p) ==
    /\ pc[p] = "bind"
    /\ IF PortFree
       THEN /\ sock' = [sock EXCEPT ![p] = "listening"]
            /\ pc' = [pc EXCEPT ![p] = "print_url"]
            /\ UNCHANGED <<err, exitStatus, backlog, active, lingering>>
       ELSE Raise(p, "OSError_EADDRINUSE")
    /\ UNCHANGED <<public, cwd, stdout, browser, intAt, nextId, lastResp>>

\* A mutant of PrintUrl: the two status lines in the wrong order.
PrintUrlSwapped(p) ==
    /\ pc[p] = "print_url"
    /\ stdout' = [stdout EXCEPT ![p] = Append(@, LineStop)]
    /\ pc' = [pc EXCEPT ![p] = "print_stop"]
    /\ UNCHANGED <<public, cwd, sock, browser, err, exitStatus, intAt, backlog,
                   nextId, active, lastResp, lingering>>

\* line 15: print(f"Serving at http://localhost:{PORT}")
PrintUrl(p) ==
    /\ pc[p] = "print_url"
    /\ stdout' = [stdout EXCEPT ![p] = Append(@, LineUrl)]
    /\ pc' = [pc EXCEPT ![p] = "print_stop"]
    /\ UNCHANGED <<public, cwd, sock, browser, err, exitStatus, intAt, backlog,
                   nextId, active, lastResp, lingering>>

\* line 16: print("Press Ctrl+C to stop the server")
PrintStop(p) ==
    /\ pc[p] = "print_stop"
    /\ stdout' = [stdout EXCEPT ![p] = Append(@, LineStop)]
    /\ pc' = [pc EXCEPT ![p] = "open"]
    /\ UNCHANGED <<public, cwd, sock, browser, err, exitStatus, intAt, backlog,
                   nextId, active, lastResp, lingering>>

\* print() raises when standard output cannot be written (a closed pipe).
PrintError(p) ==
    /\ pc[p] \in {"print_url", "print_stop", "stopped_msg"}
    /\ Raise(p, "BrokenPipeError")
    /\ UNCHANGED <<public, cwd, stdout, browser, intAt, nextId, lastResp>>

\* A mutant of OpenBrowser: a browser that cannot be started is an error
\* (webbrowser.get() raises webbrowser.Error; webbrowser.open() does not).
OpenBrowserRaising(p) ==
    /\ pc[p] = "open"
    /\ \E ok \in BOOLEAN :
         IF ok
         THEN /\ browser' = [browser EXCEPT ![p] = "opened"]
              /\ pc' = [pc EXCEPT ![p] = "serve"]
              /\ UNCHANGED <<err, exitStatus, sock, backlog, active, lingering>>
         ELSE /\ browser' = [browser EXCEPT ![p] = "failed"]
              /\ Raise(p, "webbrowser.Error")
    /\ UNCHANGED <<public, cwd, stdout, intAt, nextId, lastResp>>

\* line 19: webbrowser.open(...) returns True or False; the script drops the
\* result and goes on to line 22.
OpenBrowser(p) ==
    /\ pc[p] = "open"
    /\ \E ok \in BOOLEAN :
         browser' = [browser EXCEPT ![p] = IF ok THEN "opened" ELSE "failed"]
    /\ pc' = [pc EXCEPT ![p] = "serve"]
    /\ UNCHANGED <<public, cwd, sock, stdout, err, exitStatus, intAt, backlog,
                   nextId, active, lastResp, lingering>>

\* ---------------------------------------------------------- serve loop
\* serve_forever() takes the oldest queued connection and goes to nextpc.
Accept(p, nextpc) ==
    /\ pc[p] = "serve"
    /\ backlog # <<>>
    /\ active' = [active EXCEPT ![p] = @ \cup {Head(backlog)}]
    /\ backlog' = Tail(backlog)
    /\ pc' = [pc EXCEPT ![p] = nextpc]
    /\ UNCHANGED <<public, cwd, sock, stdout, browser, err, exitStatus, intAt,
                   nextId, lastResp, lingering>>

\* A mutant of StartRequest: the request is handed to a thread and the loop
\* goes back to accepting (socketserver.ThreadingMixIn).
StartRequestThreaded(p) == Accept(p, "serve")

\* line 22: TCPServer.process_request runs the handler in the loop's own
\* thread: the loop is in the handler until the request is finished.
StartRequest(p) == Accept(p, "handle")

\* The handler has read the request GET u on connection r of p and
\* answered it.
Served(p, r, u) ==
    /\ lastResp' = [url |-> u] @@ send_head(public, u)
    /\ active' = [active EXCEPT ![p] = @ \ {r}]
    /\ pc' = [pc EXCEPT ![p] = "serve"]
    /\ lingering' = TRUE
    /\ UNCHANGED <<err, exitStatus, sock, backlog>>

\* The client of connection r went away: the handler raises an OSError, which
\* socketserver catches (except Exception: handle_error) before it closes
\* the connection and returns to the loop.
Aborted(p, r) ==
    /\ lastResp' = [NoResp EXCEPT !.kind = "aborted"]
    /\ active' = [active EXCEPT ![p] = @ \ {r}]
    /\ pc' = [pc EXCEPT ![p] = "serve"]
    /\ lingering' = TRUE
    /\ UNCHANGED <<err, exitStatus, sock, backlog>>

\* A mutant of FinishRequest: the handler's exception leaves serve_forever.
FinishRequestPropagating(p) ==
    /\ \E r \in active[p] :
         \/ \E u \in RequestURLs : Served(p, r, u)
         \/ /\ Raise(p, "ConnectionResetError")
            /\ UNCHANGED lastResp
    /\ UNCHANGED <<public, cwd, stdout, browser, intAt, nextId>>

\* line 22: the end of a request's processing, whichever way it ends.
FinishRequest(p) ==
    /\ \E r \in active[p] :
         \/ \E u \in RequestURLs : Served(p, r, u)
         \/ Aborted(p, r)
    /\ UNCHANGED <<public, cwd, stdout, browser, intAt, nextId>>

\* --------------------------------------------------------- interruption
\* SIGINT: Python raises KeyboardInterrupt in the main thread where it is.
\* Inside serve_forever() (line 22, in the try) it is caught at line 23,
\* after socketserver has closed the connection being served; anywhere else
\* nothing catches it.
Interrupt(p) ==
    /\ pc[p] # "done"
    /\ intAt' = [intAt EXCEPT ![p] = IF @ = "none" THEN pc[p] ELSE @]
    /\ IF pc[p] \in {"serve", "handle"}
       THEN /\ pc' = [pc EXCEPT ![p] = "stopped_msg"]
            /\ active' = [active EXCEPT ![p] = {}]
            /\ lingering' = (lingering \/ active[p] # {})
            /\ UNCHANGED <<err, exitStatus, sock, backlog>>
       ELSE Raise(p, "KeyboardInterrupt")
    /\ UNCHANGED <<public, cwd, stdout, browser, nextId, lastResp>>

\* line 24: print("\nServer stopped."), then the with block ends
\* (server_close) and the script ends normally.
PrintStopped(p) ==
    /\ pc[p] = "stopped_msg"
    /\ stdout' = [stdout EXCEPT ![p] = Append(@, LineStopped)]
    /\ sock' = [sock EXCEPT ![p] = server_close(sock[p])]
    /\ backlog' = <<>>
    /\ pc' = [pc EXCEPT ![p] = "done"]
    /\ exitStatus' = [exitStatus EXCEPT ![p] = "ok"]
    /\ UNCHANGED <<public, cwd, browser, err, intAt, nextId, active, lastResp,
                   lingering>>

\* ---------------------------------------------------------- environment
\* A client connects to PORT: the kernel queues the connection for the listener.
ClientConnect ==
    /\ Listeners # {}
    /\ Len(backlog) < MaxBacklog
    /\ nextId <= MaxRequests
    /\ backlog' = Append(backlog, nextId)
    /\ nextId' = nextId + 1
    /\ UNCHANGED <<public, pc, cwd, sock, stdout, browser, err, exitStatus,
                   intAt, active, lastResp, lingering>>

\* The closed connections' TIME_WAIT ends.
TimeWaitExpire ==
    /\ lingering
    /\ lingering' = FALSE
    /\ UNCHANGED <<public, pc, cwd, sock, stdout, browser, err, exitStatus,
                   intAt, backlog, nextId, active, lastResp>>

Next ==
    \/ \E p \in Procs : Chdir(p)
    \/ \E p \in Procs : Bind(p)
    \/ \E p \in Procs : PrintUrl(p)
    \/ \E p \in Procs : PrintStop(p)
    \/ \E p \in Procs : PrintError(p)
    \/ \E p \in Procs : OpenBrowser(p)
    \/ \E p \in Procs : StartRequest(p)
    \/ \E p \in Procs : FinishRequest(p)
    \/ \E p \in Procs : Interrupt(p)
    \/ \E p \in Procs : PrintStopped(p)
    \/ ClientConnect
    \/ TimeWaitExpire

Spec == Init /\ [][Next]_vars

TypeOK ==
    /\ public \in PublicChoices
    /\ pc \in [Procs -> {"chdir", "bind", "print_url", "print_stop", "open",
                         "serve", "handle", "stopped_msg", "done"}]
    /\ cwd \in [Procs -> {"launch", "public"}]
    /\ sock \in [Procs -> {"none", "listening", "closed"}]
    /\ \A p \in Procs : Len(stdout[p]) <= 3
    /\ browser \in [Procs -> {"not_tried", "opened", "failed"}]
    /\ exitStatus \in [Procs -> {"running", "ok", "error"}]
    /\ nextId \in 1..(MaxRequests + 1)
    /\ Len(backlog) <= MaxBacklog
    /\ lingering \in BOOLEAN

\* ================================================================ claims
Startup == {"print_url", "print_stop", "open"}
Serving == {"serve", "handle"}
StatusLines == <<LineUrl, LineStop, LineStopped>>
IsResponse == lastResp.kind \notin {"none", "aborted"}

\* C1: when `public` is missing or inaccessible at launch, an instance ends
\* with the chdir's filesystem error and an error exit, and in no state of the
\* run has it a socket, a printed line or a browser attempt: the chdir comes
\* before the bind and its failure stops everything after it.  (An instance
\* interrupted before it reaches the chdir ends with the interrupt instead.)
C1_MissingPublicStopsBeforeBind ==
    public.state # "ok" =>
      \A p \in Procs :
        /\ sock[p] = "none"
        /\ stdout[p] = <<>>
        /\ browser[p] = "not_tried"
        /\ cwd[p] = "launch"
        /\ pc[p] \in {"chdir", "done"}
        /\ pc[p] = "done" =>
             /\ exitStatus[p] = "error"
             /\ \/ /\ public.state = "missing"
                   /\ err[p] = "FileNotFoundError"
                \/ /\ public.state = "noaccess"
                   /\ err[p] = "PermissionError"
                \/ /\ err[p] = "KeyboardInterrupt"
                   /\ intAt[p] = "chdir"

C1_Witness ==
    /\ public.state = "missing"
    /\ \E p \in Procs :
         pc[p] = "done" /\ err[p] = "FileNotFoundError" /\ exitStatus[p] = "error"

\* C2: an instance that reaches its bind while another instance listens on
\* the port ends there with the port-in-use error and an error exit; it has
\* printed nothing, opened no browser, never entered the serve loop, and no
\* ended instance ever runs again; the step leaves the listening instance,
\* its socket and its queue as they were, and at most one instance listens.
C2_FailedBind ==
    \A p \in Procs :
      err[p] = "OSError_EADDRINUSE" =>
        /\ pc[p] = "done"
        /\ exitStatus[p] = "error"
        /\ stdout[p] = <<>>
        /\ browser[p] = "not_tried"
        /\ sock[p] = "none"
        /\ active[p] = {}

C2_BindStep ==
    \A p \in Procs :
      /\ (/\ pc[p] = "bind"
          /\ pc'[p] # "bind"
          /\ intAt'[p] = intAt[p]
          /\ \E q \in Procs \ {p} : sock[q] = "listening")
         => /\ err'[p] = "OSError_EADDRINUSE"
            /\ pc'[p] = "done"
            /\ \A q \in Procs \ {p} :
                 /\ sock'[q] = sock[q]
                 /\ pc'[q] = pc[q]
                 /\ active'[q] = active[q]
            /\ backlog' = backlog
      /\ pc[p] = "done" => pc'[p] = "done"

C2_SecondInstanceFailsAtBind ==
    /\ [](C2_FailedBind /\ Cardinality(Listeners) <= 1)
    /\ [][C2_BindStep]_vars

C2_Witness ==
    \E p \in Procs : \E q \in Procs \ {p} :
      /\ err[p] = "OSError_EADDRINUSE"
      /\ sock[q] = "listening"
      /\ pc[q] = "handle"

\* C3: an instance interrupted at any point after its socket was bound ends
\* having printed the shutdown message as its last line, with the socket
\* closed and a normal exit.
C3_InterruptAfterBindStopsCleanly ==
    \A p \in Procs :
      (pc[p] = "done" /\ intAt[p] \in Startup \cup Serving) =>
        /\ exitStatus[p] = "ok"
        /\ sock[p] = "closed"
        /\ stdout[p] = StatusLines

\* C4: an instance processes at most one request at a time; a connection
\* that arrives meanwhile waits in the listen queue, and the processing of a
\* request begins only when no earlier one is still in process, with the
\* oldest waiting connection.
C4_OneActive ==
    \A p \in Procs :
      /\ Cardinality(active[p]) <= 1
      /\ active[p] # {} => pc[p] = "handle"
      /\ \A i \in 1..Len(backlog) :
           /\ backlog[i] \notin active[p]
           /\ \A r \in active[p] : r < backlog[i]
           /\ \A j \in 1..Len(backlog) : i < j => backlog[i] < backlog[j]

C4_StartStep ==
    \A p \in Procs :
      active'[p] \ active[p] # {} =>
        /\ active[p] = {}
        /\ backlog # <<>>
        /\ active'[p] = {Head(backlog)}
        /\ backlog' = Tail(backlog)

C4_OneRequestAtATime == []C4_OneActive /\ [][C4_StartStep]_vars

C4_Witness ==
    \E p \in Procs : pc[p] = "handle" /\ active[p] # {} /\ backlog # <<>>

\* C5: an instance leaves the serving state only by a step that delivers it
\* an interrupt, which takes it to the except clause; no end of a request
\* (answered, 404, client gone) takes it out of the loop.
C5_Step ==
    \A p \in Procs :
      (pc[p] \in Serving /\ pc'[p] \notin Serving) =>
        /\ intAt[p] = "none"
        /\ intAt'[p] = pc[p]
        /\ pc'[p] = "stopped_msg"
        /\ sock'[p] = "listening"

C5_OnlyInterruptEndsServing == [][C5_Step]_vars

C5_Witness ==
    \E p \in Procs :
      /\ pc[p] = "handle"
      /\ lastResp.kind = "aborted"
      /\ \A q \in Procs \ {p} : pc[q] = "chdir"

\* C6: the browser step, whether the browser opens or not, takes the
\* instance to the serve loop with its socket listening, no error, nothing
\* printed and the process running; an instance whose browser failed and that
\* was not interrupted is serving.
C6_OpenStep ==
    \A p \in Procs :
      (pc[p] = "open" /\ pc'[p] # "open" /\ intAt'[p] = intAt[p]) =>
        /\ browser'[p] \in {"opened", "failed"}
        /\ pc'[p] = "serve"
        /\ sock'[p] = "listening"
        /\ err'[p] = "none"
        /\ exitStatus'[p] = "running"
        /\ stdout'[p] = stdout[p]

C6_FailedBrowserServes ==
    \A p \in Procs :
      (browser[p] = "failed" /\ intAt[p] = "none") =>
        /\ pc[p] \in Serving
        /\ sock[p] = "listening"
        /\ err[p] = "none"
        /\ exitStatus[p] = "running"

C6_BrowserFailureNotFatal == []C6_FailedBrowserServes /\ [][C6_OpenStep]_vars

C6_Witness ==
    \E p \in Procs : browser[p] = "failed" /\ pc[p] = "handle"

\* C7: what an instance has printed is always a prefix of the URL line, the
\* stop instruction and the shutdown line, in that order; the first is
\* printed only once the socket is bound, both before the browser is tried
\* and the loop entered; the shutdown line only after an interrupt of the
\* serve loop, and a normal exit has all three; an instance that failed at
\* the chdir or the bind has printed nothing.
C7_StandardOutput ==
    \A p \in Procs :
      /\ Len(stdout[p]) <= Len(StatusLines)
      /\ stdout[p] = SubSeq(StatusLines, 1, Len(stdout[p]))
      /\ stdout[p] # <<>> => sock[p] # "none"
      /\ pc[p] \in {"chdir", "bind", "print_url"} => Len(stdout[p]) = 0
      /\ pc[p] = "print_stop" => Len(stdout[p]) = 1
      /\ pc[p] \in {"open", "serve", "handle", "stopped_msg"} => Len(stdout[p]) = 2
      /\ browser[p] # "not_tried" => Len(stdout[p]) >= 2
      /\ Len(stdout[p]) = 3 =>
           /\ intAt[p] \in Serving
           /\ pc[p] = "done"
           /\ exitStatus[p] = "ok"
      /\ exitStatus[p] = "ok" => Len(stdout[p]) = 3
      /\ err[p] \in {"FileNotFoundError", "PermissionError", "OSError_EADDRINUSE"}
           => stdout[p] = <<>>

C7_Witness ==
    \E p \in Procs : Len(stdout[p]) = 3 /\ browser[p] = "opened"

\* C8: the response to a GET is decided by the contents of `public`: a
\* path that names a regular file there (through dot segments too) gets 200
\* with that file's bytes, a path that names nothing there gets 404 with no
\* file content, and no step changes `public`.
C8_Response ==
    IsResponse =>
      LET tp == translate_path(lastResp.url) IN
      /\ (~lastResp.url.slash /\ tp.path \in DOMAIN public.files) =>
           /\ lastResp.status = 200
           /\ lastResp.kind = "file"
           /\ lastResp.body = public.files[tp.path]
      /\ (tp.path \notin public.dirs /\ tp.path \notin DOMAIN public.files) =>
           /\ lastResp.status = 404
           /\ lastResp.body = ""
      /\ (/\ lastResp.url = URL(<<"docs", "..", "index.html">>, FALSE)
          /\ <<"index.html">> \in DOMAIN public.files) =>
           lastResp.body = public.files[<<"index.html">>]

C8_FilesServedReadOnly == []C8_Response /\ [][public' = public]_vars

C8_Witness ==
    /\ lastResp.url = URL(<<"index.html">>, FALSE)
    /\ lastResp.status = 200
    /\ lastResp.body = "home-bytes"

\* C9 as stated: the response to a request for a directory without the
\* trailing slash, where the directory holds an index.html, is 200 with the
\* index file's content.
C9_DirWithoutSlashReturnsIndex ==
    LET tp == translate_path(lastResp.url) IN
    (/\ IsResponse
     /\ ~lastResp.url.slash
     /\ isdir(public, tp.path)
     /\ isfile(public, Append(tp.path, "index.html"))) =>
       /\ lastResp.status = 200
       /\ lastResp.body = public.files[Append(tp.path, "index.html")]

\* C9 amended: such a request is answered 301 with an empty body and the
\* same path with the slash appended as its Location; the request for the
\* path with the slash is answered 200 with the index file's content.
C9_DirRedirectsThenIndex ==
    LET tp == translate_path(lastResp.url) IN
    (/\ IsResponse
     /\ isdir(public, tp.path)
     /\ isfile(public, Append(tp.path, "index.html"))) =>
       IF lastResp.url.slash
       THEN /\ lastResp.status = 200
            /\ lastResp.kind = "file"
            /\ lastResp.body = public.files[Append(tp.path, "index.html")]
       ELSE /\ lastResp.status = 301
            /\ lastResp.body = ""
            /\ lastResp.location = URL(lastResp.url.segs, TRUE)

C9_Witness ==
    /\ lastResp.url = URL(<<"docs">>, FALSE)
    /\ lastResp.status = 301
    /\ isfile(public, <<"docs", "index.html">>)

\* C10: an instance's socket goes from none to listening at most once, at
\* the bind, and from listening only to closed, in the step that ends the
\* instance; it listens from the bind to its end; an ended instance has no
\* listening socket, whichever way it ended; a request is taken up or in
\* process only while the socket listens.
C10_Owned ==
    \A p \in Procs :
      /\ sock[p] = "listening" <=> pc[p] \in Startup \cup Serving \cup {"stopped_msg"}
      /\ pc[p] = "done" => sock[p] \in {"none", "closed"}
      /\ pc[p] = "done" /\ intAt[p] \in Startup \cup Serving => sock[p] = "closed"
      /\ pc[p] = "done" /\ err[p] = "BrokenPipeError" => sock[p] = "closed"
      /\ active[p] # {} => sock[p] = "listening"

C10_SockStep ==
    \A p \in Procs :
      /\ sock'[p] # sock[p] =>
           \/ sock[p] = "none" /\ sock'[p] = "listening" /\ pc[p] = "bind"
           \/ sock[p] = "listening" /\ sock'[p] = "closed" /\ pc'[p] = "done"
      /\ active'[p] \ active[p] # {} => sock[p] = "listening" /\ sock'[p] = "listening"

C10_SocketLifetime == []C10_Owned /\ [][C10_SockStep]_vars

C10_Witness ==
    \E p \in Procs :
      /\ pc[p] = "done"
      /\ err[p] = "KeyboardInterrupt"
      /\ intAt[p] = "open"
      /\ sock[p] = "closed"

====
